---------------------------- MODULE Spec2Model ----------------------------
(***************************************************************************)
(* A model of the microservice gateway of aws-ecs-privatelink-terraform-cdk *)
(* (microservice/app): the in-memory rate limiter and the request metrics   *)
(* middleware of main.py, the outbound call dispatcher call_service, and    *)
(* the DatabaseManager of database.py with the routes of                    *)
(* routers/database.py.                                                     *)
(*                                                                         *)
(* The request pipeline of main.py: every request runs log_requests (the    *)
(* outermost middleware), then rate_limit_middleware, then its route        *)
(* handler, then the tail of log_requests; handlers interleave only at the  *)
(* awaits of the code.  SpecRate drives it with GET /health requests of     *)
(* two clients, SpecCall with POST /call/{name} requests of one client,     *)
(* SpecStatus with requests for /health, /call/{name} and /status.          *)
(* SpecDb is the life of the DatabaseManager: initialize() at startup,     *)
(* then the health checks and the database routes while the service runs,  *)
(* then close() at shutdown.  SpecCache, SpecUsers and SpecSessions follow *)
(* the contents of one store each: the Redis cache, the users table of     *)
(* PostgreSQL and the sessions table of DynamoDB.                          *)
(***************************************************************************)
EXTENDS Integers, Sequences, FiniteSets, TLC

(***************************************************************************)
(* Bounds of the model.                                                    *)
(***************************************************************************)
\* requests received in one run of SpecRate
MaxRequests == 4
\* requests received in one run of SpecCall
MaxCalls == 3
\* last value of the clock
MaxTime == 120
\* RATE_LIMIT is configuration (main.py:40, default 100); kept small here
RATE_LIMIT == 2
\* requests received in one run of SpecStatus
MaxStatusRequests == 4
\* calls of uuid.uuid4() in one run of SpecUsers
MaxUsers == 4
\* calls of DatabaseManager.close() in one run of SpecDb
MaxCloses == 2

(***************************************************************************)
(* Program constants.                                                      *)
(***************************************************************************)
\* main.py:115, the length of the sliding window in seconds
Window == 60
\* main.py:122, the fixed retry hint of a 429 answer
RetryAfter == 60

\* the clock step of the runs on the stores' contents
StoreStep == 30

\* the request handlers in flight at once (tasks of the event loop)
Handlers == {1, 2}
Clients == {"10.0.0.1", "10.0.0.2"}
\* the clock advances by one of these amounts between two events
TickSteps == {30, 59, 60}

\* CONSUMER_SERVICES (main.py:43-48): the static target table, by name
CONSUMER_SERVICES == {"orders", "billing"}
\* service names a caller may ask for
ServiceNames == CONSUMER_SERVICES \cup {"missing"}

\* what one request asks for: method, path and, for /call/{name}, the name
Targets ==
    {[method |-> "GET", path |-> p, service |-> ""] : p \in {"/health", "/status"}}
    \cup {[method |-> "POST", path |-> "/call", service |-> s] : s \in ServiceNames}

NoRequest == [client |-> "", method |-> "", path |-> "", service |-> ""]
NoResponse == [status |-> 0, kind |-> "", upstream |-> 0, result |-> "", retry_after |-> 0]
\* no snapshot read: the counters of main.py:51-56 before any request
NoSnapshot == [requests_total |-> 0,
               requests_by_status |-> <<>>,
               requests_by_endpoint |-> <<>>,
               service_calls_total |-> 0,
               service_calls_by_service |-> <<>>]
NoOutcome == [kind |-> "", status |-> 0, body |-> [content_type |-> "", text |-> ""]]

\* bodies a downstream may answer with
Bodies ==
    {[content_type |-> "application/json", text |-> "{\"ok\": true}"],
     [content_type |-> "text/plain", text |-> "Internal Server Error"]}
UpstreamStatuses == {200, 500}
\* how an outbound call may end
Outcomes ==
    {[kind |-> "response", status |-> st, body |-> b] : st \in UpstreamStatuses, b \in Bodies}
    \cup {[kind |-> k, status |-> 0, body |-> NoOutcome.body] : k \in {"timeout", "refused"}}

VARIABLES
    now,             \* time.time()
    request_counts,  \* main.py:106, client -> list of admitted timestamps
    metrics,         \* main.py:51-58
    pc,              \* where each handler is suspended
    request,         \* the request each handler serves
    response,        \* the response each handler has produced
    outcome,         \* how the handler's outbound call ended
    issued,          \* outbound calls the handler's request has issued
    issuedTo,        \* outbound calls issued so far, by service
    decisions,       \* the admission decisions so far, in order
    inputs,          \* what the environment sends: clients, targets, clock steps
    completed,       \* the requests answered so far, counted by status
    snapshot         \* the metrics each handler's GET /status has read

gwvars == <<now, request_counts, metrics, pc, request, response, outcome,
            issued, issuedTo, decisions, inputs, completed, snapshot>>

\* the three stores of the DatabaseManager
Stores == {"postgresql", "redis", "dynamodb"}

VARIABLES
    config,          \* database.py:15-17, which store's configuration is set
    phase,           \* where the service's lifespan is
    pg_pool,         \* DatabaseManager.pg_pool
    redis_client,    \* DatabaseManager.redis_client
    dynamodb,        \* DatabaseManager.dynamodb
    dynamo_table,    \* DatabaseManager.dynamo_table ("Unset": no such attribute)
    rds_credentials, \* DatabaseManager.rds_credentials
    attempts,        \* calls of each store's _initialize_* so far
    init_result,     \* how each store's initialization ended
    db_response,     \* the answer of the last database route
    health_response, \* the answer of the last health check
    failed_probes,   \* the stores whose probe has failed in some health check
    closes,          \* calls of DatabaseManager.close() so far
    close_calls,     \* awaits of each connection's close() so far
    released,        \* whether each connection's close() has succeeded
    close_result,    \* how the last call of DatabaseManager.close() ended
    cache,           \* the Redis keyspace: key -> stored text and expiry time
    cache_written,   \* the last cache_set or cache_delete of each key
    users,           \* the rows of the PostgreSQL table users
    uuids,           \* calls of uuid.uuid4() so far
    sessions,        \* the items of the DynamoDB table
    sessions_written,\* the last store_session_data of each session id
    store_response   \* the answer of the last operation on a store's contents

\* what the health checks and close() write
lifevars == <<health_response, failed_probes, closes, close_calls, released,
              close_result>>

\* the contents of the three stores and what was last asked of them
storevars == <<cache, cache_written, users, uuids, sessions, sessions_written,
               store_response>>

dbvars == <<config, phase, pg_pool, redis_client, dynamodb, dynamo_table,
            rds_credentials, attempts, init_result, db_response, lifevars,
            storevars>>

vars == <<gwvars, dbvars>>

NoDbResponse == [route |-> "", backend |-> "", status |-> 0, calls |-> 0]
NoHealthResponse ==
    [route |-> "", status |-> 0, kind |-> "", dependencies |-> <<>>,
     probes |-> [s \in Stores |-> ""]]
NoStoreResponse ==
    [op |-> "", key |-> "", time |-> 0, raised |-> FALSE, value |-> "None",
     status |-> 0]
\* the connections close() releases (database.py:122-125)
Closeable == {"postgresql", "redis"}

\* DatabaseManager.__init__ (database.py:22-28); dynamo_table is not assigned
DatabaseConstructed(cfg) ==
    /\ config = cfg
    /\ phase = "rds"
    /\ pg_pool = "None"
    /\ redis_client = "None"
    /\ dynamodb = "None"
    /\ dynamo_table = "Unset"
    /\ rds_credentials = "None"
    /\ attempts = [s \in Stores |-> 0]
    /\ init_result = [s \in Stores |-> "pending"]
    /\ db_response = NoDbResponse
    /\ health_response = NoHealthResponse
    /\ failed_probes = {}
    /\ closes = 0
    /\ close_calls = [s \in Closeable |-> 0]
    /\ released = [s \in Closeable |-> FALSE]
    /\ close_result = "none"
    /\ cache = <<>>
    /\ cache_written = <<>>
    /\ users = {}
    /\ uuids = 0
    /\ sessions = {}
    /\ sessions_written = <<>>
    /\ store_response = NoStoreResponse

(***************************************************************************)
(* Python helpers.                                                         *)
(***************************************************************************)
\* dict.get(k, default)
Get(d, k, default) == IF k \in DOMAIN d THEN d[k] ELSE default
\* d[k] = v
Put(d, k, v) == [x \in DOMAIN d \cup {k} |-> IF x = k THEN v ELSE d[x]]
\* str(status_code)
Str(code) ==
    CASE code = 200 -> "200"
      [] code = 404 -> "404"
      [] code = 429 -> "429"
      [] code = 500 -> "500"
      [] code = 502 -> "502"
      [] code = 503 -> "503"
      [] code = 504 -> "504"
\* f"{request.method} {request.url.path}" (main.py:146)
Endpoint(rq) == <<rq.method, rq.path, rq.service>>

\* the sum of f over the keys S
RECURSIVE Sum(_, _)
Sum(f, S) == IF S = {} THEN 0 ELSE LET x == CHOOSE y \in S : TRUE
                                  IN f[x] + Sum(f, S \ {x})

RECURSIVE PruneKeepingBoundary(_, _)
\* Prune with the comparison written <=: a timestamp exactly 60 s old stays
PruneKeepingBoundary(w, current_time) ==
    IF w = <<>> THEN <<>>
    ELSE LET rest == PruneKeepingBoundary(Tail(w), current_time)
         IN IF current_time - Head(w) <= Window THEN <<Head(w)>> \o rest ELSE rest

\* Prune dropping at most the oldest timestamp
PruneHeadOnly(w, current_time) ==
    IF w = <<>> THEN <<>>
    ELSE IF current_time - Head(w) < Window THEN w ELSE Tail(w)

RECURSIVE Prune(_, _)
\* [t for t in w if current_time - t < 60] (main.py:113-116)
Prune(w, current_time) ==
    IF w = <<>> THEN <<>>
    ELSE LET rest == Prune(Tail(w), current_time)
         IN IF current_time - Head(w) < Window THEN <<Head(w)>> \o rest ELSE rest

\* LimitReached with the comparison written >: one request too many passes
LimitReachedOffByOne(w) == Len(w) > RATE_LIMIT

\* len(request_counts.get(client_ip, [])) >= RATE_LIMIT (main.py:119)
LimitReached(w) == Len(w) >= RATE_LIMIT

GatewayConstructed(inp) ==
    /\ inputs = inp
    /\ now = 0
    /\ request_counts = <<>>
    /\ metrics = [requests_total |-> 0,
                  requests_by_status |-> <<>>,
                  requests_by_endpoint |-> <<>>,
                  service_calls_total |-> 0,
                  service_calls_by_service |-> <<>>]
    /\ pc = [h \in Handlers |-> "idle"]
    /\ request = [h \in Handlers |-> NoRequest]
    /\ response = [h \in Handlers |-> NoResponse]
    /\ outcome = [h \in Handlers |-> NoOutcome]
    /\ issued = [h \in Handlers |-> 0]
    /\ issuedTo = [s \in CONSUMER_SERVICES |-> 0]
    /\ decisions = <<>>
    /\ completed = <<>>
    /\ snapshot = [h \in Handlers |-> NoSnapshot]

\* the clock moves on
Tick ==
    /\ \E d \in inputs.steps : now + d <= MaxTime /\ now' = now + d
    /\ UNCHANGED <<request_counts, metrics, pc, request, response, outcome,
                   issued, issuedTo, decisions, inputs, completed, snapshot, dbvars>>

(***************************************************************************)
(* log_requests (main.py:140-167), the outermost middleware: the part      *)
(* before `await call_next` receives a request and counts it, the part     *)
(* after it counts the status of the response.                             *)
\* log_requests counting a request in requests_total when it is answered
log_requests_counting_total_late(h) ==
    \/ /\ pc[h] = "idle"
       /\ \A g \in Handlers : g < h => pc[g] # "idle"
       /\ metrics.requests_total < inputs.max_requests
       /\ \E c \in inputs.clients, t \in inputs.targets :
            LET rq == [client |-> c, method |-> t.method, path |-> t.path,
                       service |-> t.service]
                endpoint == Endpoint(rq)
            IN /\ request' = [request EXCEPT ![h] = rq]
               /\ metrics' = [metrics EXCEPT
                      !.requests_by_endpoint = Put(@, endpoint, Get(@, endpoint, 0) + 1)]
       /\ pc' = [pc EXCEPT ![h] = "rate_limit"]
       /\ UNCHANGED <<now, request_counts, response, outcome, issued, issuedTo, decisions, inputs, completed, snapshot, dbvars>>
    \/ /\ pc[h] = "respond"
       /\ LET status_code == Str(response[h].status)
          IN metrics' = [metrics EXCEPT
                 !.requests_total = @ + 1,
                 !.requests_by_status = Put(@, status_code, Get(@, status_code, 0) + 1)]
       /\ pc' = [pc EXCEPT ![h] = "idle"]
       /\ request' = [request EXCEPT ![h] = NoRequest]
       /\ response' = [response EXCEPT ![h] = NoResponse]
       /\ outcome' = [outcome EXCEPT ![h] = NoOutcome]
       /\ issued' = [issued EXCEPT ![h] = 0]
       /\ completed' = Put(completed, response[h].status,
                           Get(completed, response[h].status, 0) + 1)
       /\ snapshot' = [snapshot EXCEPT ![h] = NoSnapshot]
       /\ UNCHANGED <<now, request_counts, issuedTo, decisions, inputs, dbvars>>

\* log_requests writing requests_total back from a value it read before the
\* increment of a request that arrived meanwhile
log_requests_losing(h) ==
    \/ /\ pc[h] = "idle"
       /\ \A g \in Handlers : g < h => pc[g] # "idle"
       /\ metrics.requests_total < inputs.max_requests
       /\ \E c \in inputs.clients, t \in inputs.targets :
            LET rq == [client |-> c, method |-> t.method, path |-> t.path,
                       service |-> t.service]
                endpoint == Endpoint(rq)
            IN /\ request' = [request EXCEPT ![h] = rq]
               /\ metrics' = [metrics EXCEPT
                      !.requests_total =
                          IF \E g \in Handlers : g # h /\ pc[g] = "rate_limit"
                          THEN @ ELSE @ + 1,
                      !.requests_by_endpoint = Put(@, endpoint, Get(@, endpoint, 0) + 1)]
       /\ pc' = [pc EXCEPT ![h] = "rate_limit"]
       /\ UNCHANGED <<now, request_counts, response, outcome, issued, issuedTo, decisions, inputs, completed, snapshot, dbvars>>
    \/ /\ pc[h] = "respond"
       /\ LET status_code == Str(response[h].status)
          IN metrics' = [metrics EXCEPT
                 !.requests_by_status = Put(@, status_code, Get(@, status_code, 0) + 1)]
       /\ pc' = [pc EXCEPT ![h] = "idle"]
       /\ request' = [request EXCEPT ![h] = NoRequest]
       /\ response' = [response EXCEPT ![h] = NoResponse]
       /\ outcome' = [outcome EXCEPT ![h] = NoOutcome]
       /\ issued' = [issued EXCEPT ![h] = 0]
       /\ completed' = Put(completed, response[h].status,
                           Get(completed, response[h].status, 0) + 1)
       /\ snapshot' = [snapshot EXCEPT ![h] = NoSnapshot]
       /\ UNCHANGED <<now, request_counts, issuedTo, decisions, inputs, dbvars>>

(***************************************************************************)
log_requests(h) ==
    \/ /\ pc[h] = "idle"
       /\ \A g \in Handlers : g < h => pc[g] # "idle"
       /\ metrics.requests_total < inputs.max_requests
       /\ \E c \in inputs.clients, t \in inputs.targets :
            LET rq == [client |-> c, method |-> t.method, path |-> t.path,
                       service |-> t.service]
                endpoint == Endpoint(rq)
            IN /\ request' = [request EXCEPT ![h] = rq]
               /\ metrics' = [metrics EXCEPT
                      !.requests_total = @ + 1,
                      !.requests_by_endpoint = Put(@, endpoint, Get(@, endpoint, 0) + 1)]
       /\ pc' = [pc EXCEPT ![h] = "rate_limit"]
       /\ UNCHANGED <<now, request_counts, response, outcome, issued, issuedTo, decisions, inputs, completed, snapshot, dbvars>>
    \/ /\ pc[h] = "respond"
       /\ LET status_code == Str(response[h].status)
          IN metrics' = [metrics EXCEPT
                 !.requests_by_status = Put(@, status_code, Get(@, status_code, 0) + 1)]
       /\ pc' = [pc EXCEPT ![h] = "idle"]
       /\ request' = [request EXCEPT ![h] = NoRequest]
       /\ response' = [response EXCEPT ![h] = NoResponse]
       /\ outcome' = [outcome EXCEPT ![h] = NoOutcome]
       /\ issued' = [issued EXCEPT ![h] = 0]
       /\ completed' = Put(completed, response[h].status,
                           Get(completed, response[h].status, 0) + 1)
       /\ snapshot' = [snapshot EXCEPT ![h] = NoSnapshot]
       /\ UNCHANGED <<now, request_counts, issuedTo, decisions, inputs, dbvars>>

\* rate_limit_middleware suspended (an await) between its check and its append
rate_limit_suspending(h) ==
    \/ /\ pc[h] = "rate_limit"
       /\ LET client_ip == request[h].client
              pruned == Prune(Get(request_counts, client_ip, <<>>), now)
          IN /\ request_counts' = Put(request_counts, client_ip, pruned)
             /\ decisions' = Append(decisions,
                    [client |-> client_ip, time |-> now,
                     seen |-> Len(pruned), allowed |-> ~LimitReached(pruned)])
             /\ IF LimitReached(pruned)
                THEN /\ response' = [response EXCEPT ![h] =
                            [NoResponse EXCEPT !.status = 429, !.kind = "RateLimited",
                                               !.retry_after = RetryAfter]]
                     /\ pc' = [pc EXCEPT ![h] = "respond"]
                ELSE /\ response' = response
                     /\ pc' = [pc EXCEPT ![h] = "rate_limit_add"]
       /\ UNCHANGED <<now, metrics, request, outcome, issued, issuedTo, inputs, completed, snapshot, dbvars>>
    \/ /\ pc[h] = "rate_limit_add"
       /\ LET client_ip == request[h].client
          IN request_counts' = Put(request_counts, client_ip,
                 Append(Get(request_counts, client_ip, <<>>), now))
       /\ pc' = [pc EXCEPT ![h] = "route"]
       /\ UNCHANGED <<now, metrics, request, response, outcome, issued, issuedTo,
                      decisions, inputs, completed, snapshot, dbvars>>

(***************************************************************************)
(* rate_limit_middleware (main.py:108-131).  Lines 109-128 hold no await:  *)
(* the prune, the check and the append are one step of the event loop.     *)
\* rate_limit_middleware passing a rejected request on to its route
rate_limit_rejecting_late(h) ==
    /\ pc[h] = "rate_limit"
    /\ LET client_ip == request[h].client
           current_time == now
           pruned == Prune(Get(request_counts, client_ip, <<>>), current_time)
       IN IF LimitReached(pruned)
          THEN /\ request_counts' = Put(request_counts, client_ip, pruned)
               /\ response' = [response EXCEPT ![h] =
                      [NoResponse EXCEPT !.status = 429, !.kind = "RateLimited",
                                         !.retry_after = RetryAfter]]
               /\ pc' = [pc EXCEPT ![h] = "route"]
               /\ decisions' = Append(decisions,
                      [client |-> client_ip, time |-> current_time,
                       seen |-> Len(pruned), allowed |-> FALSE])
          ELSE /\ request_counts' =
                      Put(request_counts, client_ip, Append(pruned, current_time))
               /\ response' = response
               /\ pc' = [pc EXCEPT ![h] = "route"]
               /\ decisions' = Append(decisions,
                      [client |-> client_ip, time |-> current_time,
                       seen |-> Len(pruned), allowed |-> TRUE])
    /\ UNCHANGED <<now, metrics, request, outcome, issued, issuedTo, inputs, completed, snapshot, dbvars>>

\* rate_limit_middleware recording the time of a request it rejects
rate_limit_appending_on_reject(h) ==
    /\ pc[h] = "rate_limit"
    /\ LET client_ip == request[h].client
           current_time == now
           pruned == Prune(Get(request_counts, client_ip, <<>>), current_time)
       IN IF LimitReached(pruned)
          THEN /\ request_counts' =
                      Put(request_counts, client_ip, Append(pruned, current_time))
               /\ response' = [response EXCEPT ![h] =
                      [NoResponse EXCEPT !.status = 429, !.kind = "RateLimited",
                                         !.retry_after = RetryAfter]]
               /\ pc' = [pc EXCEPT ![h] = "respond"]
               /\ decisions' = Append(decisions,
                      [client |-> client_ip, time |-> current_time,
                       seen |-> Len(pruned), allowed |-> FALSE])
          ELSE /\ request_counts' =
                      Put(request_counts, client_ip, Append(pruned, current_time))
               /\ response' = response
               /\ pc' = [pc EXCEPT ![h] = "route"]
               /\ decisions' = Append(decisions,
                      [client |-> client_ip, time |-> current_time,
                       seen |-> Len(pruned), allowed |-> TRUE])
    /\ UNCHANGED <<now, metrics, request, outcome, issued, issuedTo, inputs, completed, snapshot, dbvars>>

\* rate_limit_middleware cleaning the window of every client when it rejects
rate_limit_pruning_all(h) ==
    /\ pc[h] = "rate_limit"
    /\ LET client_ip == request[h].client
           current_time == now
           pruned == Prune(Get(request_counts, client_ip, <<>>), current_time)
       IN IF LimitReached(pruned)
          THEN /\ request_counts' =
                      [c \in DOMAIN request_counts \cup {client_ip} |->
                          Prune(Get(request_counts, c, <<>>), current_time)]
               /\ response' = [response EXCEPT ![h] =
                      [NoResponse EXCEPT !.status = 429, !.kind = "RateLimited",
                                         !.retry_after = RetryAfter]]
               /\ pc' = [pc EXCEPT ![h] = "respond"]
               /\ decisions' = Append(decisions,
                      [client |-> client_ip, time |-> current_time,
                       seen |-> Len(pruned), allowed |-> FALSE])
          ELSE /\ request_counts' =
                      Put(request_counts, client_ip, Append(pruned, current_time))
               /\ response' = response
               /\ pc' = [pc EXCEPT ![h] = "route"]
               /\ decisions' = Append(decisions,
                      [client |-> client_ip, time |-> current_time,
                       seen |-> Len(pruned), allowed |-> TRUE])
    /\ UNCHANGED <<now, metrics, request, outcome, issued, issuedTo, inputs, completed, snapshot, dbvars>>

(***************************************************************************)
rate_limit_middleware(h) ==
    /\ pc[h] = "rate_limit"
    /\ LET client_ip == request[h].client
           current_time == now
           pruned == Prune(Get(request_counts, client_ip, <<>>), current_time)
       IN IF LimitReached(pruned)
          THEN /\ request_counts' = Put(request_counts, client_ip, pruned)
               /\ response' = [response EXCEPT ![h] =
                      [NoResponse EXCEPT !.status = 429, !.kind = "RateLimited",
                                         !.retry_after = RetryAfter]]
               /\ pc' = [pc EXCEPT ![h] = "respond"]
               /\ decisions' = Append(decisions,
                      [client |-> client_ip, time |-> current_time,
                       seen |-> Len(pruned), allowed |-> FALSE])
          ELSE /\ request_counts' =
                      Put(request_counts, client_ip, Append(pruned, current_time))
               /\ response' = response
               /\ pc' = [pc EXCEPT ![h] = "route"]
               /\ decisions' = Append(decisions,
                      [client |-> client_ip, time |-> current_time,
                       seen |-> Len(pruned), allowed |-> TRUE])
    /\ UNCHANGED <<now, metrics, request, outcome, issued, issuedTo, inputs, completed, snapshot, dbvars>>

\* health_check (main.py:181-189)
health_check(h) ==
    /\ pc[h] = "route"
    /\ request[h].path = "/health"
    /\ response' = [response EXCEPT ![h] =
           [NoResponse EXCEPT !.status = 200, !.kind = "healthy"]]
    /\ pc' = [pc EXCEPT ![h] = "respond"]
    /\ UNCHANGED <<now, request_counts, metrics, request, outcome, issued, issuedTo, decisions, inputs, completed, snapshot, dbvars>>

\* service_status (main.py:292-312): the body holds the five counters as
\* they are when the handler runs
service_status(h) ==
    /\ pc[h] = "route"
    /\ request[h].path = "/status"
    /\ snapshot' = [snapshot EXCEPT ![h] =
           [requests_total |-> metrics["requests_total"],
            requests_by_status |-> metrics["requests_by_status"],
            requests_by_endpoint |-> metrics["requests_by_endpoint"],
            service_calls_total |-> metrics["service_calls_total"],
            service_calls_by_service |-> metrics["service_calls_by_service"]]]
    /\ response' = [response EXCEPT ![h] =
           [NoResponse EXCEPT !.status = 200, !.kind = "running"]]
    /\ pc' = [pc EXCEPT ![h] = "respond"]
    /\ UNCHANGED <<now, request_counts, metrics, request, outcome, issued,
                   issuedTo, decisions, inputs, completed, dbvars>>

\* await response.json() (main.py:276): aiohttp raises unless the body is JSON
ResponseJson(body) ==
    IF body.content_type = "application/json"
    THEN [raised |-> FALSE, value |-> body.text]
    ELSE [raised |-> TRUE, value |-> ""]

\* Classify with `except Exception` written before `except asyncio.TimeoutError`
ClassifyGenericFirst(o) ==
    IF o.kind = "response" /\ ~ResponseJson(o.body).raised
    THEN [NoResponse EXCEPT !.status = 200, !.kind = "UpstreamStatus",
                            !.upstream = o.status,
                            !.result = ResponseJson(o.body).value]
    ELSE [NoResponse EXCEPT !.status = 502, !.kind = "TransportError"]

\* main.py:274-290: what call_service answers for each end of the outbound call
Classify(o) ==
    IF o.kind = "response" /\ ~ResponseJson(o.body).raised
    THEN [NoResponse EXCEPT !.status = 200, !.kind = "UpstreamStatus",
                            !.upstream = o.status,
                            !.result = ResponseJson(o.body).value]
    ELSE IF o.kind = "timeout"
    THEN [NoResponse EXCEPT !.status = 504, !.kind = "Timeout"]
    ELSE [NoResponse EXCEPT !.status = 502, !.kind = "TransportError"]

\* RecordServiceCall without the per-service counter
RecordServiceCallTotalOnly(m, service_name) ==
    [m EXCEPT !.service_calls_total = @ + 1]

\* main.py:266-267
RecordServiceCall(m, service_name) ==
    [m EXCEPT !.service_calls_total = @ + 1,
              !.service_calls_by_service =
                  Put(@, service_name, Get(@, service_name, 0) + 1)]

\* call_service counting the call only once it has completed
call_service_counting_late(h) ==
    \/ /\ pc[h] = "route"
       /\ request[h].path = "/call"
       /\ LET service_name == request[h].service
          IN IF service_name \notin CONSUMER_SERVICES
             THEN /\ response' = [response EXCEPT ![h] =
                         [NoResponse EXCEPT !.status = 404, !.kind = "NotFound"]]
                  /\ pc' = [pc EXCEPT ![h] = "respond"]
                  /\ UNCHANGED <<issued, issuedTo>>
             ELSE /\ issued' = [issued EXCEPT ![h] = @ + 1]
                  /\ issuedTo' = [issuedTo EXCEPT ![service_name] = @ + 1]
                  /\ pc' = [pc EXCEPT ![h] = "calling"]
                  /\ response' = response
       /\ UNCHANGED <<now, request_counts, metrics, request, outcome, decisions, inputs, completed, snapshot, dbvars>>
    \/ /\ pc[h] = "calling"
       /\ \E o \in Outcomes :
            /\ outcome' = [outcome EXCEPT ![h] = o]
            /\ response' = [response EXCEPT ![h] = Classify(o)]
            /\ metrics' = IF o.kind = "response"
                          THEN RecordServiceCall(metrics, request[h].service)
                          ELSE metrics
       /\ pc' = [pc EXCEPT ![h] = "respond"]
       /\ UNCHANGED <<now, request_counts, request, issued, issuedTo, decisions, inputs, completed, snapshot, dbvars>>

\* call_service counting the call before it has looked the service up
call_service_counting_first(h) ==
    \/ /\ pc[h] = "route"
       /\ request[h].path = "/call"
       /\ LET service_name == request[h].service
          IN /\ metrics' = RecordServiceCall(metrics, service_name)
             /\ IF service_name \notin CONSUMER_SERVICES
                THEN /\ response' = [response EXCEPT ![h] =
                            [NoResponse EXCEPT !.status = 404, !.kind = "NotFound"]]
                     /\ pc' = [pc EXCEPT ![h] = "respond"]
                     /\ UNCHANGED <<issued, issuedTo>>
                ELSE /\ issued' = [issued EXCEPT ![h] = @ + 1]
                     /\ issuedTo' = [issuedTo EXCEPT ![service_name] = @ + 1]
                     /\ pc' = [pc EXCEPT ![h] = "calling"]
                     /\ response' = response
       /\ UNCHANGED <<now, request_counts, request, outcome, decisions, inputs, completed, snapshot, dbvars>>
    \/ /\ pc[h] = "calling"
       /\ \E o \in Outcomes :
            /\ outcome' = [outcome EXCEPT ![h] = o]
            /\ response' = [response EXCEPT ![h] = Classify(o)]
       /\ pc' = [pc EXCEPT ![h] = "respond"]
       /\ UNCHANGED <<now, request_counts, metrics, request, issued, issuedTo,
                      decisions, inputs, completed, snapshot, dbvars>>

(***************************************************************************)
(* call_service (main.py:257-290): up to the await of session.post, then   *)
(* the end of the outbound call.                                           *)
(***************************************************************************)
call_service(h) ==
    \/ /\ pc[h] = "route"
       /\ request[h].path = "/call"
       /\ LET service_name == request[h].service
          IN IF service_name \notin CONSUMER_SERVICES
             THEN /\ response' = [response EXCEPT ![h] =
                         [NoResponse EXCEPT !.status = 404, !.kind = "NotFound"]]
                  /\ pc' = [pc EXCEPT ![h] = "respond"]
                  /\ UNCHANGED <<metrics, issued, issuedTo>>
             ELSE /\ metrics' = RecordServiceCall(metrics, service_name)
                  /\ issued' = [issued EXCEPT ![h] = @ + 1]
                  /\ issuedTo' = [issuedTo EXCEPT ![service_name] = @ + 1]
                  /\ pc' = [pc EXCEPT ![h] = "calling"]
                  /\ response' = response
       /\ UNCHANGED <<now, request_counts, request, outcome, decisions, inputs, completed, snapshot, dbvars>>
    \/ /\ pc[h] = "calling"
       /\ \E o \in Outcomes :
            /\ outcome' = [outcome EXCEPT ![h] = o]
            /\ response' = [response EXCEPT ![h] = Classify(o)]
       /\ pc' = [pc EXCEPT ![h] = "respond"]
       /\ UNCHANGED <<now, request_counts, metrics, request, issued, issuedTo, decisions, inputs, completed, snapshot, dbvars>>

(***************************************************************************)
(* SpecRate: GET /health requests of two clients through the middlewares.  *)
(***************************************************************************)
InitRate ==
    /\ GatewayConstructed([clients |-> Clients,
                           targets |-> {t \in Targets : t.path = "/health"},
                           steps |-> TickSteps,
                           max_requests |-> MaxRequests])
    /\ DatabaseConstructed([s \in Stores |-> FALSE])

NextRate ==
    \/ Tick
    \/ \E h \in Handlers : log_requests(h)
    \/ \E h \in Handlers : rate_limit_middleware(h)
    \/ \E h \in Handlers : health_check(h)

SpecRate == InitRate /\ [][NextRate]_vars

(***************************************************************************)
(* SpecCall: POST /call/{name} requests of one client.                     *)
(***************************************************************************)
InitCall ==
    /\ GatewayConstructed([clients |-> {"10.0.0.1"},
                           targets |-> {t \in Targets : t.path = "/call"},
                           steps |-> {Window},
                           max_requests |-> MaxCalls])
    /\ DatabaseConstructed([s \in Stores |-> FALSE])

NextCall ==
    \/ Tick
    \/ \E h \in Handlers : log_requests(h)
    \/ \E h \in Handlers : rate_limit_middleware(h)
    \/ \E h \in Handlers : call_service(h)

SpecCall == InitCall /\ [][NextCall]_vars

(***************************************************************************)
(* SpecStatus: requests of one client for /health, /call/{name} and       *)
(* /status, the last reading the counters the others have moved.           *)
(***************************************************************************)
InitStatus ==
    /\ GatewayConstructed([clients |-> {"10.0.0.1"},
                           targets |-> {t \in Targets :
                                          t.service \in {"", "missing", "orders"}},
                           steps |-> {Window},
                           max_requests |-> MaxStatusRequests])
    /\ DatabaseConstructed([s \in Stores |-> FALSE])

NextStatus ==
    \/ Tick
    \/ \E h \in Handlers : log_requests(h)
    \/ \E h \in Handlers : rate_limit_middleware(h)
    \/ \E h \in Handlers : health_check(h)
    \/ \E h \in Handlers : call_service(h)
    \/ \E h \in Handlers : service_status(h)

SpecStatus == InitStatus /\ [][NextStatus]_vars

(***************************************************************************)
(* DatabaseManager.initialize (database.py:30-40), run by lifespan at      *)
(* startup (main.py:67-68): the three _initialize_* calls in order.  Each  *)
(* catches its own errors; an error that left one would reach the except   *)
(* of initialize, which skips what remains and returns.                    *)
(***************************************************************************)
\* _initialize_rds letting the error of a failed connect leave it
_initialize_rds_raising ==
    /\ phase = "rds"
    /\ attempts' = [attempts EXCEPT !["postgresql"] = @ + 1]
    /\ IF ~config["postgresql"]
       THEN /\ init_result' = [init_result EXCEPT !["postgresql"] = "not_configured"]
            /\ phase' = "redis"
            /\ UNCHANGED <<rds_credentials, pg_pool>>
       ELSE \E o \in {"secret_failed", "pool_failed", "connected"} :
              /\ rds_credentials' = IF o = "secret_failed" THEN rds_credentials ELSE "Set"
              /\ pg_pool' = IF o = "connected" THEN "Pool" ELSE pg_pool
              /\ init_result' = [init_result EXCEPT !["postgresql"] =
                     IF o = "connected" THEN "connected" ELSE "failed"]
              /\ phase' = IF o = "connected" THEN "redis" ELSE "running"
    /\ UNCHANGED <<config, redis_client, dynamodb, dynamo_table, db_response>>
    /\ UNCHANGED <<lifevars, storevars, gwvars>>

\* _initialize_rds (database.py:42-77)
_initialize_rds ==
    /\ phase = "rds"
    /\ attempts' = [attempts EXCEPT !["postgresql"] = @ + 1]
    /\ IF ~config["postgresql"]
       THEN /\ init_result' = [init_result EXCEPT !["postgresql"] = "not_configured"]
            /\ UNCHANGED <<rds_credentials, pg_pool>>
       ELSE \E o \in {"secret_failed", "pool_failed", "connected"} :
              /\ rds_credentials' = IF o = "secret_failed" THEN rds_credentials ELSE "Set"
              /\ pg_pool' = IF o = "connected" THEN "Pool" ELSE pg_pool
              /\ init_result' = [init_result EXCEPT !["postgresql"] =
                     IF o = "connected" THEN "connected" ELSE "failed"]
    /\ phase' = "redis"
    /\ UNCHANGED <<config, redis_client, dynamodb, dynamo_table, db_response>>
    /\ UNCHANGED <<lifevars, storevars, gwvars>>

\* _initialize_redis (database.py:79-100): the client is stored at line 86,
\* before the ping of line 95
_initialize_redis ==
    /\ phase = "redis"
    /\ attempts' = [attempts EXCEPT !["redis"] = @ + 1]
    /\ IF ~config["redis"]
       THEN /\ init_result' = [init_result EXCEPT !["redis"] = "not_configured"]
            /\ UNCHANGED redis_client
       ELSE \E o \in {"from_url_failed", "ping_failed", "connected"} :
              /\ redis_client' = IF o = "from_url_failed" THEN redis_client ELSE "Redis"
              /\ init_result' = [init_result EXCEPT !["redis"] =
                     IF o = "connected" THEN "connected" ELSE "failed"]
    /\ phase' = "dynamodb"
    /\ UNCHANGED <<config, pg_pool, rds_credentials, dynamodb, dynamo_table, db_response>>
    /\ UNCHANGED <<lifevars, storevars, gwvars>>

\* _initialize_dynamodb (database.py:102-118): the table is stored at line
\* 110, before the describe_table of line 113
_initialize_dynamodb ==
    /\ phase = "dynamodb"
    /\ attempts' = [attempts EXCEPT !["dynamodb"] = @ + 1]
    /\ IF ~config["dynamodb"]
       THEN /\ init_result' = [init_result EXCEPT !["dynamodb"] = "not_configured"]
            /\ UNCHANGED <<dynamodb, dynamo_table>>
       ELSE \E o \in {"resource_failed", "describe_failed", "connected"} :
              /\ dynamodb' = IF o = "resource_failed" THEN dynamodb ELSE "Resource"
              /\ dynamo_table' = IF o = "resource_failed" THEN dynamo_table ELSE "Table"
              /\ init_result' = [init_result EXCEPT !["dynamodb"] =
                     IF o = "connected" THEN "connected" ELSE "failed"]
    /\ phase' = "running"
    /\ UNCHANGED <<config, pg_pool, rds_credentials, redis_client, db_response>>
    /\ UNCHANGED <<lifevars, storevars, gwvars>>

\* DatabaseManager.initialize (database.py:30-40)
initialize ==
    \/ _initialize_rds
    \/ _initialize_redis
    \/ _initialize_dynamodb

(***************************************************************************)
(* The data accessors of DatabaseManager (database.py:129-311).  Each is   *)
(* given the handle it reads and the backend's answer to its call, and     *)
(* yields whether it raised, what it returned and the backend calls made.  *)
(***************************************************************************)
WriteAnswers == {"ok", "error"}
ReadAnswers == {"found", "missing", "error"}

Raised(n) == [raised |-> TRUE, value |-> "None", calls |-> n]
Returned(v, n) == [raised |-> FALSE, value |-> v, calls |-> n]

\* create_user (database.py:129-165): CREATE TABLE IF NOT EXISTS, then INSERT
db_create_user(pool, b) ==
    IF pool = "None" THEN Raised(0)
    ELSE IF b = "ok" THEN Returned("user", 2) ELSE Raised(2)

\* get_user (database.py:167-180)
db_get_user(pool, b) ==
    IF pool = "None" THEN Raised(0)
    ELSE IF b = "found" THEN Returned("user", 1)
    ELSE IF b = "missing" THEN Returned("None", 1)
    ELSE Raised(1)

\* cache_set (database.py:225-233): a backend error is logged and dropped
db_cache_set(client, b) ==
    IF client = "None" THEN Returned("None", 0) ELSE Returned("None", 1)

\* cache_get (database.py:235-247)
db_cache_get(client, b) ==
    IF client = "None" THEN Returned("None", 0)
    ELSE IF b = "found" THEN Returned("value", 1)
    ELSE Returned("None", 1)

\* cache_delete (database.py:249-257)
db_cache_delete(client, b) ==
    IF client = "None" THEN Returned("None", 0) ELSE Returned("None", 1)

\* store_session_data (database.py:260-275); reading a dynamo_table that was
\* never assigned raises AttributeError at line 262
db_store_session_data(table, b) ==
    IF table = "Unset" THEN Raised(0) ELSE Returned("None", 1)

\* get_session_data (database.py:277-292)
db_get_session_data(table, b) ==
    IF table = "Unset" THEN Raised(0)
    ELSE IF b = "found" THEN Returned("data", 1)
    ELSE Returned("None", 1)

\* get_user_activity (database.py:294-311)
db_get_user_activity(table, b) ==
    IF table = "Unset" THEN Raised(0)
    ELSE IF b = "found" THEN Returned("items", 1)
    ELSE Returned("empty", 1)

(***************************************************************************)
(* The routes of routers/database.py.  The body of a route either returns, *)
(* raises an HTTPException or raises another error; its except clauses     *)
(* then decide the status.                                                 *)
(***************************************************************************)
Return(n) == [kind |-> "return", status |-> 200, calls |-> n]
Http(st, n) == [kind |-> "http", status |-> st, calls |-> n]
Error(n) == [kind |-> "error", status |-> 0, calls |-> n]

\* `if not db.<handle>: raise HTTPException(503)` and then the accessor:
\* reading a missing attribute raises AttributeError
Guarded(handle, r) ==
    IF handle = "Unset" THEN Error(0)
    ELSE IF handle = "None" THEN Http(503, 0)
    ELSE IF r.raised THEN Error(r.calls)
    ELSE Return(r.calls)

\* the same with `if value is None: raise HTTPException(404)` after the accessor
GuardedLookup(handle, r) ==
    IF handle = "Unset" THEN Error(0)
    ELSE IF handle = "None" THEN Http(503, 0)
    ELSE IF r.raised THEN Error(r.calls)
    ELSE IF r.value = "None" THEN Http(404, r.calls)
    ELSE Return(r.calls)

\* `except Exception` alone (e.g. routers/database.py:81-83): HTTPException
\* is an Exception, so every raise of the body becomes a 500
ExceptException(res) == IF res.kind = "return" THEN res.status ELSE 500

\* `except HTTPException: raise` before `except Exception`
\* (e.g. routers/database.py:101-105)
ExceptHTTPException(res) ==
    IF res.kind = "error" THEN 500 ELSE res.status

\* the route answers; `backend` keeps what the store answered to its call
Answer(route, backend, st, res) ==
    /\ phase = "running"
    /\ db_response' = [route |-> route, backend |-> backend, status |-> st,
                       calls |-> res.calls]
    /\ UNCHANGED <<config, phase, pg_pool, redis_client, dynamodb, dynamo_table,
                   rds_credentials, attempts, init_result>>
    /\ UNCHANGED <<lifevars, storevars, gwvars>>

\* routers/database.py:63-83
create_user ==
    \E b \in WriteAnswers :
        LET res == Guarded(pg_pool, db_create_user(pg_pool, b))
        IN Answer("create_user", b, ExceptException(res), res)

\* routers/database.py:85-105
get_user ==
    \E b \in ReadAnswers :
        LET res == GuardedLookup(pg_pool, db_get_user(pg_pool, b))
        IN Answer("get_user", b, ExceptHTTPException(res), res)

\* routers/database.py:107-128
set_cache ==
    \E b \in WriteAnswers :
        LET res == Guarded(redis_client, db_cache_set(redis_client, b))
        IN Answer("set_cache", b, ExceptException(res), res)

\* routers/database.py:130-155
get_cache ==
    \E b \in ReadAnswers :
        LET res == GuardedLookup(redis_client, db_cache_get(redis_client, b))
        IN Answer("get_cache", b, ExceptHTTPException(res), res)

\* routers/database.py:157-176
delete_cache ==
    \E b \in WriteAnswers :
        LET res == Guarded(redis_client, db_cache_delete(redis_client, b))
        IN Answer("delete_cache", b, ExceptException(res), res)

\* routers/database.py:178-202
store_session ==
    \E b \in WriteAnswers :
        LET res == Guarded(dynamo_table, db_store_session_data(dynamo_table, b))
        IN Answer("store_session", b, ExceptException(res), res)

\* routers/database.py:204-229
get_session ==
    \E b \in ReadAnswers :
        LET res == GuardedLookup(dynamo_table, db_get_session_data(dynamo_table, b))
        IN Answer("get_session", b, ExceptHTTPException(res), res)

\* routers/database.py:231-247
get_user_activity ==
    \E b \in ReadAnswers :
        LET res == Guarded(dynamo_table, db_get_user_activity(dynamo_table, b))
        IN Answer("get_user_activity", b, ExceptException(res), res)

(***************************************************************************)
(* The health checks: readiness_check (main.py:191-246) and                *)
(* database_health (routers/database.py:15-61).  p gives, for each store,  *)
(* how its probe ends if it is made.                                       *)
(***************************************************************************)
ProbeOutcomes == {"ok", "error"}

\* `if db.<handle>:` reads the handle: a missing attribute raises
\* AttributeError, None is false, a connection object is true
Truthy(handle) == handle \notin {"None", "Unset"}

\* the probes a health check made before it ended, in the order of the code
Probed(p, upto) ==
    [s \in Stores |->
        IF s \in upto /\ Truthy(CASE s = "postgresql" -> pg_pool
                                  [] s = "redis" -> redis_client
                                  [] s = "dynamodb" -> dynamo_table)
        THEN p[s] ELSE ""]

\* one `if handle: probe; status[s] = True else: status[s] = False` of
\* readiness_check (main.py:203-222), inside the one try of line 201
ReadyProbe(acc, s, handle, p) ==
    IF acc.raised THEN acc
    ELSE IF handle = "Unset" THEN [acc EXCEPT !.raised = TRUE]
    ELSE IF handle = "None"
    THEN [acc EXCEPT !.dependencies = Put(@, s, FALSE), !.upto = @ \cup {s}]
    ELSE IF p[s] = "error" THEN [acc EXCEPT !.raised = TRUE, !.upto = @ \cup {s}]
    ELSE [acc EXCEPT !.dependencies = Put(@, s, TRUE), !.upto = @ \cup {s}]

\* an except clause that logs the error and leaves the map as it is
ExceptLogOnly(acc) == acc.dependencies

\* `except Exception` of readiness_check (main.py:224-228)
ExceptAllFalse(acc) ==
    IF acc.raised
    THEN Put(Put(Put(acc.dependencies, "postgresql", FALSE), "redis", FALSE),
             "dynamodb", FALSE)
    ELSE acc.dependencies

\* readiness_check (main.py:191-246)
readiness_check ==
    /\ phase = "running"
    /\ \E p \in [Stores -> ProbeOutcomes] :
         LET start == [dependencies |-> Put(<<>>, "http", TRUE),
                       raised |-> FALSE, upto |-> {}]
             pg == ReadyProbe(start, "postgresql", pg_pool, p)
             rd == ReadyProbe(pg, "redis", redis_client, p)
             dy == ReadyProbe(rd, "dynamodb", dynamo_table, p)
             dependencies_status == ExceptAllFalse(dy)
             probes == Probed(p, dy.upto)
         IN /\ health_response' =
                  IF Get(dependencies_status, "http", FALSE)
                  THEN [route |-> "ready", status |-> 200, kind |-> "ready",
                        dependencies |-> dependencies_status, probes |-> probes]
                  ELSE [route |-> "ready", status |-> 503, kind |-> "not ready",
                        dependencies |-> <<>>, probes |-> probes]
            /\ failed_probes' =
                  failed_probes \cup {s \in Stores : probes[s] = "error"}
    /\ UNCHANGED <<config, phase, pg_pool, redis_client, dynamodb, dynamo_table,
                   rds_credentials, attempts, init_result, db_response,
                   closes, close_calls, released, close_result>>
    /\ UNCHANGED <<storevars, gwvars>>

\* database_health dropping the handle of a store whose probe failed
database_health_resetting ==
    /\ phase = "running"
    /\ \E p \in [Stores -> ProbeOutcomes] :
         LET postgresql_status == Truthy(pg_pool) /\ p["postgresql"] = "ok"
             redis_status == Truthy(redis_client) /\ p["redis"] = "ok"
             dynamodb_status == Truthy(dynamo_table) /\ p["dynamodb"] = "ok"
             probes == Probed(p, IF dynamo_table = "Unset"
                                 THEN {"postgresql", "redis"} ELSE Stores)
         IN /\ health_response' =
                  IF dynamo_table = "Unset"
                  THEN [route |-> "database_health", status |-> 500,
                        kind |-> "error", dependencies |-> <<>>,
                        probes |-> probes]
                  ELSE [route |-> "database_health", status |-> 200,
                        kind |-> IF postgresql_status /\ redis_status
                                       /\ dynamodb_status
                                 THEN "healthy" ELSE "degraded",
                        dependencies |->
                            Put(Put(Put(<<>>, "postgresql", postgresql_status),
                                    "redis", redis_status),
                                "dynamodb", dynamodb_status),
                        probes |-> probes]
            /\ failed_probes' =
                  failed_probes \cup {s \in Stores : probes[s] = "error"}
            /\ pg_pool' = IF probes["postgresql"] = "error" THEN "None" ELSE pg_pool
            /\ redis_client' = IF probes["redis"] = "error" THEN "None"
                               ELSE redis_client
    /\ UNCHANGED <<config, phase, dynamodb, dynamo_table,
                   rds_credentials, attempts, init_result, db_response,
                   closes, close_calls, released, close_result>>
    /\ UNCHANGED <<storevars, gwvars>>

\* database_health (routers/database.py:15-61): each probe has its own try;
\* `if db.dynamo_table:` (line 40) is inside the outer try only
database_health ==
    /\ phase = "running"
    /\ \E p \in [Stores -> ProbeOutcomes] :
         LET postgresql_status == Truthy(pg_pool) /\ p["postgresql"] = "ok"
             redis_status == Truthy(redis_client) /\ p["redis"] = "ok"
             dynamodb_status == Truthy(dynamo_table) /\ p["dynamodb"] = "ok"
             probes == Probed(p, IF dynamo_table = "Unset"
                                 THEN {"postgresql", "redis"} ELSE Stores)
         IN /\ health_response' =
                  IF dynamo_table = "Unset"
                  THEN [route |-> "database_health", status |-> 500,
                        kind |-> "error", dependencies |-> <<>>,
                        probes |-> probes]
                  ELSE [route |-> "database_health", status |-> 200,
                        kind |-> IF postgresql_status /\ redis_status
                                       /\ dynamodb_status
                                 THEN "healthy" ELSE "degraded",
                        dependencies |->
                            Put(Put(Put(<<>>, "postgresql", postgresql_status),
                                    "redis", redis_status),
                                "dynamodb", dynamodb_status),
                        probes |-> probes]
            /\ failed_probes' =
                  failed_probes \cup {s \in Stores : probes[s] = "error"}
    /\ UNCHANGED <<config, phase, pg_pool, redis_client, dynamodb, dynamo_table,
                   rds_credentials, attempts, init_result, db_response,
                   closes, close_calls, released, close_result>>
    /\ UNCHANGED <<storevars, gwvars>>

(***************************************************************************)
(* DatabaseManager.close (database.py:120-126), called by lifespan at      *)
(* shutdown (main.py:77-82): the close of the pool, then the close of the  *)
(* Redis client.  There is no try in close(): an error of the first close  *)
(* leaves close() at once.  The handles are not reset.                     *)
(***************************************************************************)
CloseOutcomes == {"ok", "error"}

close ==
    \/ /\ phase \in {"running", "closed"}
       /\ closes < MaxCloses
       /\ closes' = closes + 1
       /\ IF Truthy(pg_pool)
          THEN \E o \in CloseOutcomes :
                 /\ close_calls' = [close_calls EXCEPT !["postgresql"] = @ + 1]
                 /\ released' = [released EXCEPT !["postgresql"] = @ \/ o = "ok"]
                 /\ close_result' = IF o = "error" THEN "raised" ELSE "pending"
                 /\ phase' = IF o = "error" THEN "closed" ELSE "closing_redis"
          ELSE /\ close_result' = "pending"
               /\ phase' = "closing_redis"
               /\ UNCHANGED <<close_calls, released>>
       /\ UNCHANGED <<config, pg_pool, redis_client, dynamodb, dynamo_table,
                      rds_credentials, attempts, init_result, db_response,
                      health_response, failed_probes>>
       /\ UNCHANGED <<storevars, gwvars>>
    \/ /\ phase = "closing_redis"
       /\ IF Truthy(redis_client)
          THEN \E o \in CloseOutcomes :
                 /\ close_calls' = [close_calls EXCEPT !["redis"] = @ + 1]
                 /\ released' = [released EXCEPT !["redis"] = @ \/ o = "ok"]
                 /\ close_result' = IF o = "error" THEN "raised" ELSE "returned"
          ELSE /\ close_result' = "returned"
               /\ UNCHANGED <<close_calls, released>>
       /\ phase' = "closed"
       /\ UNCHANGED <<config, pg_pool, redis_client, dynamodb, dynamo_table,
                      rds_credentials, attempts, init_result, db_response,
                      health_response, failed_probes, closes>>
       /\ UNCHANGED <<storevars, gwvars>>

(***************************************************************************)
(* SpecDb: startup with every combination of configured stores and connect *)
(* outcomes, then the health checks and the database routes while the      *)
(* service runs, then shutdown.                                            *)
(***************************************************************************)
InitDb ==
    /\ GatewayConstructed([clients |-> {}, targets |-> {}, steps |-> {},
                           max_requests |-> 0])
    /\ \E cfg \in [Stores -> BOOLEAN] : DatabaseConstructed(cfg)

NextDb ==
    \/ initialize
    \/ create_user
    \/ get_user
    \/ set_cache
    \/ get_cache
    \/ delete_cache
    \/ store_session
    \/ get_session
    \/ get_user_activity
    \/ readiness_check
    \/ database_health
    \/ close

SpecDb == InitDb /\ [][NextDb]_vars

(***************************************************************************)
(* The cache: cache_set, cache_get and cache_delete of DatabaseManager     *)
(* (database.py:225-257) as the routes of routers/database.py:107-176     *)
(* call them, on the contents of a Redis server that answers every call.   *)
(***************************************************************************)
Keys == {"k1", "k2"}
\* the JSON objects a request body may hold, as Python writes them
Values == {"{}", "{'a': 1}"}
\* ttl values in seconds
Ttls == {60}

\* str(value): the text Python prints for the value
python_str(value) == value

\* json.dumps(value)
json_dumps(value) ==
    CASE value = "{}" -> "{}"
      [] value = "{'a': 1}" -> "{\"a\": 1}"

\* json.loads(text): raises unless the text is JSON
json_loads(text) ==
    CASE text = "{}" -> [raised |-> FALSE, value |-> "{}"]
      [] text = "{\"a\": 1}" -> [raised |-> FALSE, value |-> "{'a': 1}"]
      [] OTHER -> [raised |-> TRUE, value |-> "None"]

\* Redis SETEX key ttl text at time t
redis_setex(keyspace, key, ttl, text, t) ==
    Put(keyspace, key, [text |-> text, expires |-> t + ttl])

\* Redis GET key at time t: None once the key has expired
redis_get(keyspace, key, t) ==
    IF key \in DOMAIN keyspace /\ t < keyspace[key].expires
    THEN keyspace[key].text ELSE "None"

\* Redis DEL key
redis_delete(keyspace, key) ==
    [k \in DOMAIN keyspace \ {key} |-> keyspace[k]]

\* a store operation answers; the handles and the lifecycle stay as they are
StoreAnswer(op, key, r, st) ==
    /\ phase = "running"
    /\ store_response' = [op |-> op, key |-> key, time |-> now,
                          raised |-> r.raised, value |-> r.value, status |-> st]
    /\ UNCHANGED <<config, phase, pg_pool, redis_client, dynamodb, dynamo_table,
                   rds_credentials, attempts, init_result, db_response, lifevars>>
    /\ UNCHANGED gwvars

\* cache_set (database.py:225-233) called by set_cache
\* (routers/database.py:107-128)
cache_set ==
    \E key \in Keys, value \in Values, ttl \in Ttls :
        LET r == Returned("None", IF Truthy(redis_client) THEN 1 ELSE 0)
        IN /\ StoreAnswer("cache_set", key, r,
                          ExceptException(Guarded(redis_client, r)))
           /\ IF Truthy(redis_client)
              THEN /\ cache' = redis_setex(cache, key, ttl, json_dumps(value), now)
                   /\ cache_written' = Put(cache_written, key,
                          [op |-> "set", value |-> value, time |-> now, ttl |-> ttl])
              ELSE UNCHANGED <<cache, cache_written>>
           /\ UNCHANGED <<users, uuids, sessions, sessions_written>>

\* cache_get (database.py:235-247) called by get_cache
\* (routers/database.py:130-155)
cache_get ==
    \E key \in Keys :
        LET value == redis_get(cache, key, now)
            r == IF ~Truthy(redis_client) THEN Returned("None", 0)
                 ELSE IF value # "None" /\ value # ""
                 THEN IF json_loads(value).raised THEN Returned("None", 1)
                      ELSE Returned(json_loads(value).value, 1)
                 ELSE Returned("None", 1)
        IN /\ StoreAnswer("cache_get", key, r,
                          ExceptHTTPException(GuardedLookup(redis_client, r)))
           /\ UNCHANGED <<cache, cache_written, users, uuids, sessions,
                          sessions_written>>

\* cache_delete (database.py:249-257) called by delete_cache
\* (routers/database.py:157-176)
cache_delete ==
    \E key \in Keys :
        LET r == Returned("None", IF Truthy(redis_client) THEN 1 ELSE 0)
        IN /\ StoreAnswer("cache_delete", key, r,
                          ExceptException(Guarded(redis_client, r)))
           /\ IF Truthy(redis_client)
              THEN /\ cache' = redis_delete(cache, key)
                   /\ cache_written' = Put(cache_written, key,
                          [op |-> "delete", value |-> "None", time |-> now,
                           ttl |-> 0])
              ELSE UNCHANGED <<cache, cache_written>>
           /\ UNCHANGED <<users, uuids, sessions, sessions_written>>

\* SpecCache: startup with only Redis configured, then the cache operations
\* as time passes
InitCache ==
    /\ GatewayConstructed([clients |-> {}, targets |-> {}, steps |-> {StoreStep},
                           max_requests |-> 0])
    /\ DatabaseConstructed([s \in Stores |-> s = "redis"])

NextCache ==
    \/ Tick
    \/ initialize
    \/ cache_set
    \/ cache_get
    \/ cache_delete

SpecCache == InitCache /\ [][NextCache]_vars

(***************************************************************************)
(* The users table: DatabaseManager.create_user (database.py:129-165) as   *)
(* the route create_user (routers/database.py:63-83) calls it.  The table  *)
(* is the one of the CREATE TABLE statement of lines 139-147: username and *)
(* email are UNIQUE, and an INSERT that breaks that raises                 *)
(* UniqueViolationError and stores nothing.                                *)
(***************************************************************************)
Usernames == {"alice", "bob"}
Emails == {"a@x.com", "b@x.com"}

\* INSERT INTO users: what the statement raises, if anything
InsertOutcome(table, username, email, b) ==
    IF b = "error" THEN "PostgresError"
    ELSE IF \E u \in table : u.username = username \/ u.email = email
    THEN "UniqueViolationError"
    ELSE "None"

DatabaseManager_create_user ==
    /\ uuids < MaxUsers
    /\ \E username \in Usernames, email \in Emails, b \in WriteAnswers :
         LET user_id == uuids + 1
             raises == InsertOutcome(users, username, email, b)
             r == IF ~Truthy(pg_pool) THEN Raised(0)
                  ELSE IF raises # "None"
                  THEN [raised |-> TRUE, value |-> raises, calls |-> 2]
                  ELSE Returned("user", 2)
         IN /\ StoreAnswer("create_user", username, r,
                           ExceptException(Guarded(pg_pool, r)))
            /\ IF Truthy(pg_pool)
               THEN /\ uuids' = user_id
                    /\ users' = IF raises = "None"
                                THEN users \cup {[id |-> user_id,
                                                  username |-> username,
                                                  email |-> email]}
                                ELSE users
               ELSE UNCHANGED <<users, uuids>>
            /\ UNCHANGED <<cache, cache_written, sessions, sessions_written>>

\* SpecUsers: startup with only PostgreSQL configured, then creations
InitUsers ==
    /\ GatewayConstructed([clients |-> {}, targets |-> {}, steps |-> {},
                           max_requests |-> 0])
    /\ DatabaseConstructed([s \in Stores |-> s = "postgresql"])

NextUsers ==
    \/ initialize
    \/ DatabaseManager_create_user

SpecUsers == InitUsers /\ [][NextUsers]_vars

(***************************************************************************)
(* The sessions table: store_session_data (database.py:260-275) and        *)
(* get_session_data (database.py:277-292) as the routes store_session and  *)
(* get_session (routers/database.py:178-229) call them.  An item is found  *)
(* by its whole key, which both methods build as (id, timestamp); the      *)
(* clock counts whole seconds, as int(datetime.utcnow().timestamp()) does. *)
(***************************************************************************)
SessionIds == {"s1", "s2"}

\* Table.put_item: the item replaces the one with the same key
dynamo_put_item(table, item) ==
    {i \in table : ~(i.id = item.id /\ i.timestamp = item.timestamp)}
       \cup {item}

\* Table.get_item: the items with exactly this key (none or one)
dynamo_get_item(table, id, timestamp) ==
    {i \in table : i.id = id /\ i.timestamp = timestamp}

store_session_data ==
    \E session_id \in SessionIds, data \in Values, ttl \in Ttls :
        LET r == Returned("None", IF Truthy(dynamo_table) THEN 1 ELSE 0)
            item == [id |-> session_id, timestamp |-> now,
                     data |-> json_dumps(data), ttl |-> now + ttl]
        IN /\ StoreAnswer("store_session", session_id, r,
                          ExceptException(Guarded(dynamo_table, r)))
           /\ IF Truthy(dynamo_table)
              THEN /\ sessions' = dynamo_put_item(sessions, item)
                   /\ sessions_written' = Put(sessions_written, session_id,
                          [value |-> data, time |-> now, ttl |-> ttl])
              ELSE UNCHANGED <<sessions, sessions_written>>
           /\ UNCHANGED <<cache, cache_written, users, uuids>>

get_session_data ==
    \E session_id \in SessionIds :
        LET found == dynamo_get_item(sessions, session_id, now)
            r == IF ~Truthy(dynamo_table) \/ found = {} THEN Returned("None", 1)
                 ELSE LET loaded == json_loads((CHOOSE i \in found : TRUE).data)
                      IN IF loaded.raised THEN Returned("None", 1)
                         ELSE Returned(loaded.value, 1)
        IN /\ StoreAnswer("get_session", session_id, r,
                          ExceptHTTPException(GuardedLookup(dynamo_table, r)))
           /\ UNCHANGED <<cache, cache_written, users, uuids, sessions,
                          sessions_written>>

\* SpecSessions: startup with only DynamoDB configured, then the session
\* operations as time passes
InitSessions ==
    /\ GatewayConstructed([clients |-> {}, targets |-> {}, steps |-> {StoreStep},
                           max_requests |-> 0])
    /\ DatabaseConstructed([s \in Stores |-> s = "dynamodb"])

NextSessions ==
    \/ Tick
    \/ initialize
    \/ store_session_data
    \/ get_session_data

SpecSessions == InitSessions /\ [][NextSessions]_vars

(***************************************************************************)
(* The rate limiter.                                                       *)
(***************************************************************************)
\* the timestamps of w that are less than 60 s old at time t
Recent(w, t) == SelectSeq(w, LAMBDA x : t - x < Window)

\* the earlier admissions of decision i's client that are less than 60 s old
\* when decision i is taken
AdmittedBefore(i) ==
    {j \in 1..(i - 1) :
        /\ decisions[j].client = decisions[i].client
        /\ decisions[j].allowed
        /\ decisions[i].time - decisions[j].time < Window}

\* C1: an admission check keeps the client's timestamps t with now - t < 60,
\* admits iff fewer than RATE_LIMIT remain, appends now when it admits and
\* nothing when it rejects (it then answers 429).
C1_AdmitRule ==
    [][\A h \in Handlers :
         (pc[h] = "rate_limit" /\ pc'[h] # "rate_limit") =>
            LET c == request[h].client
                kept == Recent(Get(request_counts, c, <<>>), now)
                admitted == pc'[h] = "route"
            IN /\ admitted <=> Len(kept) < RATE_LIMIT
               /\ ~admitted => pc'[h] = "respond" /\ response'[h].status = 429
               /\ c \in DOMAIN request_counts'
               /\ request_counts'[c] = IF admitted THEN Append(kept, now) ELSE kept
      ]_vars

\* C1 witness: a check has rejected, and a check has admitted after dropping
\* an aged timestamp
W_C1 ==
    /\ \E i \in DOMAIN decisions : ~decisions[i].allowed
    /\ \E i \in DOMAIN decisions :
          /\ decisions[i].allowed
          /\ \E j \in 1..(i - 1) :
                /\ decisions[j].client = decisions[i].client
                /\ decisions[j].allowed
                /\ decisions[i].time - decisions[j].time >= Window

\* C2: under every interleaving each admission check sees exactly the
\* admissions of its client in the last 60 s (no two checks pass on the same
\* count), so no client has more than RATE_LIMIT admissions in any rolling
\* 60 s interval.
C2_NoOvershoot ==
    \A i \in DOMAIN decisions :
        /\ decisions[i].seen = Cardinality(AdmittedBefore(i))
        /\ Cardinality({j \in AdmittedBefore(i) \cup {i} : decisions[j].allowed})
              <= RATE_LIMIT

\* C2 witness: two requests of one client in flight at once, one admitted to
\* the last free slot and the other rejected
W_C2 ==
    \E g, h \in Handlers :
        /\ g # h
        /\ request[g].client = request[h].client
        /\ pc[g] = "route"
        /\ pc[h] = "respond" /\ response[h].status = 429
        /\ Len(decisions) >= 2
        /\ decisions[Len(decisions)].time = decisions[Len(decisions) - 1].time

\* C3: a request is rejected while RATE_LIMIT admissions of its client are
\* less than 60 s old and is admitted as soon as fewer are; rejections do not
\* count.
C3_RejectThenReadmit ==
    \A i \in DOMAIN decisions :
        LET young == {j \in 1..(i - 1) :
                        /\ decisions[j].client = decisions[i].client
                        /\ decisions[j].allowed
                        /\ decisions[j].time > decisions[i].time - Window}
        IN /\ Cardinality(young) >= RATE_LIMIT => ~decisions[i].allowed
           /\ Cardinality(young) < RATE_LIMIT => decisions[i].allowed

\* C3 witness: a client had RATE_LIMIT admissions, was rejected, and was
\* admitted again once they had aged
W_C3 ==
    \E i, k \in DOMAIN decisions :
        /\ i < k
        /\ decisions[i].client = decisions[k].client
        /\ ~decisions[i].allowed
        /\ decisions[k].allowed
        /\ Cardinality(AdmittedBefore(i)) = RATE_LIMIT
        /\ AdmittedBefore(k) = {}

\* the decisions taken so far for client c
DecisionsOf(c) == {i \in DOMAIN decisions : decisions[i].client = c}

\* C21: a client whose requests so far are all less than 60 s old (a burst
\* that began with an empty window) has its requests 1..RATE_LIMIT admitted
\* and passed on to the route, and request RATE_LIMIT + 1 answered 429
\* with the retry hint 60 without the route being entered.
C21_BurstRejectsNext ==
    [][\A h \in Handlers :
         (pc[h] = "rate_limit" /\ pc'[h] # "rate_limit") =>
            LET c == request[h].client
                burst == \A i \in DecisionsOf(c) : now - decisions[i].time < 60
                sent == Cardinality(DecisionsOf(c))
            IN /\ (burst /\ sent < RATE_LIMIT) =>
                     pc'[h] = "route" /\ response'[h] = NoResponse
               /\ (burst /\ sent = RATE_LIMIT) =>
                     /\ pc'[h] = "respond"
                     /\ response'[h].status = 429
                     /\ response'[h].kind = "RateLimited"
                     /\ response'[h].retry_after = 60
      ]_vars

\* C21 witness: RATE_LIMIT + 1 requests of one client within less than
\* 60 s, the last answered 429 with the retry hint
W_C21 ==
    \E h \in Handlers :
        /\ pc[h] = "respond" /\ response[h].status = 429
        /\ response[h].retry_after = 60
        /\ Len(decisions) = RATE_LIMIT + 1
        /\ \A i \in DOMAIN decisions :
              /\ decisions[i].client = request[h].client
              /\ now - decisions[i].time < 60
              /\ decisions[i].allowed <=> i <= RATE_LIMIT
        /\ now > 0

\* C22: right after an admission check of a client at time now, admitted
\* or not, every timestamp of the client's window is less than 60 s old; a
\* timestamp exactly 60 s old is gone.
C22_WindowIsRecent ==
    [][\A h \in Handlers :
         (pc[h] = "rate_limit" /\ pc'[h] # "rate_limit") =>
            LET w == request_counts'[request[h].client]
            IN \A i \in DOMAIN w : now - w[i] < 60 /\ now - w[i] # 60
      ]_vars

\* C22 witness: a check has just admitted at a time when an admission of
\* the same client was exactly 60 s old, and the window does not hold it
W_C22 ==
    \E h \in Handlers :
        /\ pc[h] = "route"
        /\ \E j \in DecisionsOf(request[h].client) :
              decisions[j].allowed /\ now - decisions[j].time = 60
        /\ decisions[Len(decisions)].client = request[h].client
        /\ decisions[Len(decisions)].time = now
        /\ \A i \in DOMAIN request_counts[request[h].client] :
              request_counts[request[h].client][i] > now - 60

\* C26: no client's window ever holds more than RATE_LIMIT timestamps.
C26_WindowBounded ==
    \A c \in DOMAIN request_counts : Len(request_counts[c]) <= RATE_LIMIT

\* C26 witness: a client's window is full and a request of that client has
\* just been rejected
W_C26 ==
    \E h \in Handlers :
        /\ pc[h] = "respond" /\ response[h].status = 429
        /\ Len(request_counts[request[h].client]) = RATE_LIMIT
        /\ Cardinality(DOMAIN request_counts) = 2

\* C29: an admission check of one client leaves the window of every other
\* client as it is, and its answer is decided by the client's own window.
C29_PerClientFrame ==
    [][\A h \in Handlers :
         (pc[h] = "rate_limit" /\ pc'[h] # "rate_limit") =>
            LET c == request[h].client
            IN /\ DOMAIN request_counts' = DOMAIN request_counts \cup {c}
               /\ \A d \in DOMAIN request_counts :
                     d # c => request_counts'[d] = request_counts[d]
               /\ pc'[h] = "route" <=>
                     Len(Recent(Get(request_counts, c, <<>>), now)) < RATE_LIMIT
      ]_vars

\* C29 witness: a client with a full window is rejected and then, at the
\* same time, the other client is admitted
W_C29 ==
    \E i, j \in DOMAIN decisions :
        /\ decisions[i].client # decisions[j].client
        /\ decisions[i].time = decisions[j].time
        /\ ~decisions[i].allowed
        /\ decisions[j].allowed
        /\ i < j
        /\ Cardinality(AdmittedBefore(i)) = RATE_LIMIT
        /\ DOMAIN request_counts = Clients

\* the number of requests the rate limiter has admitted
Admitted == Cardinality({i \in DOMAIN decisions : decisions[i].allowed})

\* C11: the admission check comes before the request-start metrics, so the
\* request counters count admitted requests only: a request that is not yet
\* admitted or was rejected is in neither requests_total nor
\* requests_by_endpoint (the claim as stated).
C11_RejectedNotCounted ==
    /\ metrics.requests_total <= Admitted
    /\ Sum(metrics.requests_by_endpoint, DOMAIN metrics.requests_by_endpoint)
          <= Admitted

\* C17: every GET /health is answered 200 'healthy', however many requests
\* its client has sent before (the claim as stated).
C17_HealthAlways200 ==
    \A h \in Handlers :
        (pc[h] = "respond" /\ request[h].path = "/health") =>
            response[h].status = 200 /\ response[h].kind = "healthy"

(***************************************************************************)
(* The dispatcher.                                                         *)
(***************************************************************************)
\* C7: a call that did not complete is answered 504 Timeout iff it timed out
\* and 502 TransportError iff it failed in transport, never the other way.
C7_FailureKinds ==
    \A h \in Handlers :
        (pc[h] = "respond" /\ outcome[h].kind \in {"timeout", "refused"}) =>
            /\ response[h].status \in {502, 504}
            /\ (response[h].status = 504 /\ response[h].kind = "Timeout")
                  <=> outcome[h].kind = "timeout"
            /\ (response[h].status = 502 /\ response[h].kind = "TransportError")
                  <=> outcome[h].kind = "refused"

\* C7 witness: a timed-out call answered 504
W_C7 ==
    \E h \in Handlers :
        pc[h] = "respond" /\ outcome[h].kind = "timeout" /\ response[h].status = 504

\* C8: a completed call is answered UpstreamStatus with the downstream's
\* status and body, whatever they are (the claim as stated).
C8_CompletedPassThrough ==
    \A h \in Handlers :
        (pc[h] = "respond" /\ outcome[h].kind = "response") =>
            /\ response[h].kind = "UpstreamStatus"
            /\ response[h].upstream = outcome[h].status
            /\ response[h].result = outcome[h].body.text

\* C9: the call counters count every outbound call once, from the moment it
\* is issued and whatever its end, and a request issues at most one call.
C9_CountedOnceBeforeOutcome ==
    /\ \A s \in CONSUMER_SERVICES :
          Get(metrics.service_calls_by_service, s, 0) = issuedTo[s]
    /\ metrics.service_calls_total = Sum(issuedTo, CONSUMER_SERVICES)
    /\ \A h \in Handlers :
          /\ issued[h] <= 1
          /\ pc[h] = "calling" => issued[h] = 1
          /\ (pc[h] = "respond" /\ outcome[h].kind # "") => issued[h] = 1

\* C9 witness: a call that is still awaited is counted, and one that timed
\* out has been counted and issued once
W_C9 ==
    \E g, h \in Handlers :
        /\ pc[g] = "calling"
        /\ pc[h] = "respond" /\ outcome[h].kind = "timeout" /\ issued[h] = 1
        /\ metrics.service_calls_total = 2

\* C10: a dispatch to a name that is not in the target table answers 404,
\* issues no call and changes no call counter.
C10_UnknownService ==
    [][\A h \in Handlers :
         (/\ pc[h] = "route"
          /\ request[h].path = "/call"
          /\ request[h].service \notin CONSUMER_SERVICES
          /\ pc'[h] # "route") =>
            /\ pc'[h] = "respond"
            /\ response'[h].status = 404 /\ response'[h].kind = "NotFound"
            /\ issued'[h] = 0
            /\ issuedTo' = issuedTo
            /\ metrics'.service_calls_total = metrics.service_calls_total
            /\ metrics'.service_calls_by_service = metrics.service_calls_by_service
      ]_vars

\* C10 witness: a request for an unknown service answered 404 after a call
\* to a known one was counted
W_C10 ==
    \E h \in Handlers :
        /\ pc[h] = "respond"
        /\ request[h].service \notin CONSUMER_SERVICES
        /\ response[h].status = 404
        /\ issued[h] = 0
        /\ metrics.service_calls_total = 1

(***************************************************************************)
(* The DatabaseManager.                                                    *)
(***************************************************************************)
\* the stored connection handle of a store
Handle(s) ==
    CASE s = "postgresql" -> pg_pool
      [] s = "redis" -> redis_client
      [] s = "dynamodb" -> dynamo_table
\* a handle that holds no connection object
Absent(h) == h \in {"None", "Unset"}

\* C4: whatever the configuration and the connect outcomes, initialize()
\* calls each of the three initializations once, a failed one does not stop
\* the later ones, and startup goes on to the running state.
C4_InitializeAttemptsAll ==
    /\ \A s \in Stores : attempts[s] <= 1
    /\ phase \in {"rds", "redis", "dynamodb", "running", "closing_redis", "closed"}
    /\ phase = "redis" => attempts["postgresql"] = 1
    /\ phase = "dynamodb" => attempts["postgresql"] = 1 /\ attempts["redis"] = 1
    /\ phase \in {"running", "closing_redis", "closed"} =>
          \A s \in Stores : attempts[s] = 1
    /\ phase \in {"rds", "redis", "dynamodb"} => ENABLED initialize

\* C4 witness: startup reached the running state although the first two
\* stores failed to connect, and the third was still connected
W_C4 ==
    /\ phase = "running"
    /\ init_result["postgresql"] = "failed"
    /\ init_result["redis"] = "failed"
    /\ init_result["dynamodb"] = "connected"
    /\ \A s \in Stores : attempts[s] = 1

\* C5: after initialize() a store's handle is present iff the store was
\* configured and its connect attempt, connection test included, succeeded
\* (the claim as stated).
C5_HandleIffConnected ==
    phase = "running" =>
        \A s \in Stores : ~Absent(Handle(s)) <=> init_result[s] = "connected"

\* the store a route works on
StoreOf(route) ==
    CASE route \in {"create_user", "get_user"} -> "postgresql"
      [] route \in {"set_cache", "get_cache", "delete_cache"} -> "redis"
      [] route \in {"store_session", "get_session", "get_user_activity"} -> "dynamodb"

\* C6: a data route whose store has no connection handle makes no backend
\* call and answers 503 (the claim as stated).
C6_AbsentHandleUnavailable ==
    (db_response.route # "" /\ Absent(Handle(StoreOf(db_response.route)))) =>
        /\ db_response.calls = 0
        /\ db_response.status = 503

\* C12: a cache get whose backend call failed is answered differently from a
\* cache get of a key that is not in the cache (the claim as stated).
C12_AbsentDistinctFromFailure ==
    (/\ db_response.route = "get_cache"
     /\ db_response.backend = "error"
     /\ db_response.calls > 0) =>
        LET absent == db_cache_get(redis_client, "missing")
            failed == db_cache_get(redis_client, "error")
        IN /\ failed # absent
           /\ db_response.status
                 # ExceptHTTPException(GuardedLookup(redis_client, absent))

(***************************************************************************)
(* The health checks.                                                      *)
(***************************************************************************)
\* a health check in which nothing raised: every probe made succeeded and
\* every handle could be read
NothingRaised(hr) ==
    /\ dynamo_table # "Unset"
    /\ \A s \in Stores : hr.probes[s] # "error"

\* C15: while the service runs (initialize() has ended, close() has not
\* begun) no health check and no data operation changes a stored handle:
\* an absent handle is not connected, a present one is not torn down, and
\* whatever probes failed before, a health check whose probes succeed
\* reports a store available iff its handle is present.
C15_HandlesFrozenWhileRunning ==
    [][(phase = "running" /\ phase' = "running") =>
         /\ <<pg_pool, redis_client, dynamodb, dynamo_table>>'
               = <<pg_pool, redis_client, dynamodb, dynamo_table>>
         /\ (health_response'.route # "" /\ NothingRaised(health_response')) =>
               \A s \in Stores :
                  health_response'.dependencies[s] <=> ~Absent(Handle(s))
      ]_vars

\* C15 witness: after a data operation, and after a health check in which
\* the Redis probe failed, a health check probes Redis with success and
\* reports it available, while the absent pool is still absent
W_C15 ==
    /\ phase = "running"
    /\ db_response.route # ""
    /\ "redis" \in failed_probes
    /\ health_response.route = "database_health"
    /\ health_response.probes["redis"] = "ok"
    /\ health_response.status = 200
    /\ health_response.dependencies["redis"]
    /\ redis_client = "Redis"
    /\ pg_pool = "None"

\* C16: with no store configured, initialize() ends without a handle and
\* without error, and every health check (readiness and database health)
\* answers 200 and reports the three stores unavailable (the claim as
\* stated).
C16_NothingConfigured ==
    (\A s \in Stores : ~config[s]) =>
        /\ phase \notin {"rds", "redis", "dynamodb"} =>
              \A s \in Stores : init_result[s] = "not_configured"
        /\ health_response.route # "" =>
              /\ health_response.status = 200
              /\ \A s \in Stores :
                    /\ s \in DOMAIN health_response.dependencies
                    /\ health_response.dependencies[s] = FALSE

\* C18: whatever the handles and the outcomes of the probes, the readiness
\* check answers 200 'ready' with a boolean for each of postgresql, redis
\* and dynamodb; it never answers 503.
C18_AlwaysReady ==
    health_response.route = "ready" =>
        /\ health_response.status = 200
        /\ health_response.kind = "ready"
        /\ \A s \in Stores :
              /\ s \in DOMAIN health_response.dependencies
              /\ health_response.dependencies[s] \in BOOLEAN

\* C18 witness: a readiness check whose Redis probe raised, after the pool
\* was probed with success, answered 200 with the three stores false
W_C18 ==
    /\ health_response.route = "ready"
    /\ health_response.status = 200
    /\ health_response.probes["postgresql"] = "ok"
    /\ health_response.probes["redis"] = "error"
    /\ \A s \in Stores : health_response.dependencies[s] = FALSE

\* C25: every health check reports a store available iff the store's own
\* handle is present and its own probe succeeded, whatever the handles and
\* probes of the other two stores (the claim as stated).
C25_IndependentAvailability ==
    health_response.route # "" =>
        \A s \in Stores :
            /\ s \in DOMAIN health_response.dependencies
            /\ health_response.dependencies[s]
                  <=> (~Absent(Handle(s)) /\ health_response.probes[s] = "ok")

(***************************************************************************)
(* Shutdown.                                                               *)
(***************************************************************************)
\* C13: when close() has ended, it has attempted the close of every
\* connection it holds, whatever the outcome of an earlier close, and no
\* error of a close has left it (the claim as stated).
C13_CloseReleasesAll ==
    (phase = "closed" /\ closes = 1) =>
        /\ close_result = "returned"
        /\ \A s \in Closeable : ~Absent(Handle(s)) => close_calls[s] = 1

\* C14: a second close() leaves every handle as the first left it and does
\* not close again a connection that is already released (the claim as
\* stated).
C14_CloseIdempotent ==
    [][closes >= 1 =>
         /\ <<pg_pool, redis_client, dynamodb, dynamo_table>>'
               = <<pg_pool, redis_client, dynamodb, dynamo_table>>
         /\ \A s \in Closeable :
               released[s] => close_calls'[s] = close_calls[s]
      ]_vars

(***************************************************************************)
(* The request metrics.                                                    *)
(***************************************************************************)
\* the requests answered so far
Completed == Sum(completed, DOMAIN completed)
\* the requests received and not yet answered
InFlight == Cardinality({h \in Handlers : pc[h] # "idle"})
\* requests_by_status holds, for each status, the requests answered with it
ByStatusIs(by_status, answered) ==
    /\ DOMAIN by_status = {Str(st) : st \in DOMAIN answered}
    /\ \A st \in DOMAIN answered : by_status[Str(st)] = answered[st]

\* C19 (as stated): the snapshot GET /status reads after N requests have
\* completed shows requests_total = N and, for every status s,
\* requests_by_status[s] = the number of them answered with s.
C19_SnapshotCountsCompleted ==
    [][\A h \in Handlers :
         (pc[h] = "route" /\ request[h].path = "/status" /\ pc'[h] = "respond") =>
            /\ snapshot'[h].requests_total = Completed
            /\ ByStatusIs(snapshot'[h].requests_by_status, completed)
      ]_vars

\* C19 (amended): the snapshot GET /status reads after N requests have
\* completed shows requests_total = N + the requests in flight, the status
\* request itself among them (N + 1 when it is the only one), and, for
\* every status s, requests_by_status[s] = the number of the N answered
\* with s.
C19_SnapshotCountsReceived ==
    [][\A h \in Handlers :
         (pc[h] = "route" /\ request[h].path = "/status" /\ pc'[h] = "respond") =>
            /\ snapshot'[h].requests_total = Completed + InFlight
            /\ InFlight >= 1
            /\ (\A g \in Handlers : g # h => pc[g] = "idle") =>
                  snapshot'[h].requests_total = Completed + 1
            /\ ByStatusIs(snapshot'[h].requests_by_status, completed)
      ]_vars

\* C19 witness: after two requests answered 200 and one answered 404, and
\* with no other request in flight, GET /status has read a snapshot
W_C19 ==
    \E h \in Handlers :
        /\ pc[h] = "respond" /\ request[h].path = "/status"
        /\ \A g \in Handlers : g # h => pc[g] = "idle"
        /\ completed = Put(Put(<<>>, 200, 2), 404, 1)
        /\ snapshot[h].requests_total = 4
        /\ snapshot[h].requests_by_status = Put(Put(<<>>, "200", 2), "404", 1)

\* C20: under every interleaving of the handlers no increment is lost:
\* requests_total and the sum of requests_by_endpoint are the number of
\* requests that have entered log_requests, and requests_by_status counts,
\* status by status, the requests that have finished.
C20_NoLostIncrement ==
    /\ metrics.requests_total = Completed + InFlight
    /\ Sum(metrics.requests_by_endpoint, DOMAIN metrics.requests_by_endpoint)
          = Completed + InFlight
    /\ ByStatusIs(metrics.requests_by_status, completed)
    /\ Sum(metrics.requests_by_status, DOMAIN metrics.requests_by_status)
          = Completed

\* C20 witness: two requests entered log_requests one after the other
\* while neither had finished, after two others had finished
W_C20 ==
    /\ \A h \in Handlers : pc[h] \in {"rate_limit", "route", "respond"}
    /\ pc[1] = "rate_limit" /\ pc[2] = "rate_limit"
    /\ Completed = 2
    /\ metrics.requests_total = 4

\* counter dict d has not decreased in e
NotDecreased(d, e) ==
    \A k \in DOMAIN d : k \in DOMAIN e /\ e[k] >= d[k]

\* the metrics counters agree with one another
MetricsConsistent ==
    /\ metrics.requests_total
          = Sum(metrics.requests_by_endpoint, DOMAIN metrics.requests_by_endpoint)
    /\ metrics.service_calls_total
          = Sum(metrics.service_calls_by_service,
                DOMAIN metrics.service_calls_by_service)
    /\ Sum(metrics.requests_by_status, DOMAIN metrics.requests_by_status)
          <= metrics.requests_total

\* C27: in every state requests_total is the sum of requests_by_endpoint,
\* service_calls_total the sum of service_calls_by_service, the sum of
\* requests_by_status is at most requests_total (the difference being the
\* requests in flight), and no step decreases a counter.
C27_ConsistentAndMonotonic ==
    /\ []MetricsConsistent
    /\ [][/\ metrics'.requests_total >= metrics.requests_total
          /\ metrics'.service_calls_total >= metrics.service_calls_total
          /\ NotDecreased(metrics.requests_by_status, metrics'.requests_by_status)
          /\ NotDecreased(metrics.requests_by_endpoint,
                          metrics'.requests_by_endpoint)
          /\ NotDecreased(metrics.service_calls_by_service,
                          metrics'.service_calls_by_service)
         ]_vars

\* C27 witness: with requests answered 200, 404 and 429 counted, a call
\* counted and one request still in flight
W_C27 ==
    /\ InFlight = 1
    /\ metrics.requests_total = 4
    /\ DOMAIN metrics.requests_by_status = {"200", "404", "429"}
    /\ metrics.service_calls_total = 1
    /\ \E h \in Handlers : pc[h] = "calling"

(***************************************************************************)
(* The contents of the stores.                                             *)
(***************************************************************************)
\* C23: with Redis connected, a cache get of a key issued after a cache set
\* of it and before its ttl has elapsed, with no set or delete of the key
\* in between, returns the value set; a cache get of a key that was never
\* set returns None (404 'not found'), not an error.
C23_CacheRoundTrip ==
    [][(store_response'.op = "cache_get" /\ store_response' # store_response
        /\ Truthy(redis_client)) =>
          LET k == store_response'.key
          IN /\ (/\ k \in DOMAIN cache_written
                  /\ cache_written[k].op = "set"
                  /\ now < cache_written[k].time + cache_written[k].ttl) =>
                     /\ store_response'.value = cache_written[k].value
                     /\ store_response'.status = 200
             /\ k \notin DOMAIN cache_written =>
                     /\ ~store_response'.raised
                     /\ store_response'.value = "None"
                     /\ store_response'.status = 404
      ]_vars

\* C23 witness: a get has returned the value set one clock step before,
\* within its ttl, while the other key has never been set
W_C23 ==
    /\ store_response.op = "cache_get"
    /\ store_response.key \in DOMAIN cache_written
    /\ cache_written[store_response.key].op = "set"
    /\ store_response.time = cache_written[store_response.key].time + StoreStep
    /\ store_response.value = "{'a': 1}"
    /\ store_response.status = 200
    /\ DOMAIN cache_written = {store_response.key}

\* C24: with PostgreSQL connected, creating a user whose username or email
\* is already stored is answered with a Conflict that the caller can tell
\* from success and from every other failure, and the table keeps one row
\* per username and per email (the claim as stated).
C24_DuplicateIsConflict ==
    /\ \A u, v \in users :
          (u.username = v.username \/ u.email = v.email \/ u.id = v.id) => u = v
    /\ (/\ store_response.op = "create_user"
        /\ store_response.raised
        /\ store_response.value = "UniqueViolationError") =>
          store_response.status
             \notin {200, ExceptException(Error(2)), ExceptException(Http(503, 0))}

\* C28: with DynamoDB connected, a session stored with
\* store_session_data(session_id, data, ttl) is returned by a later
\* get_session_data(session_id) issued at any time before the ttl has
\* elapsed, not only in the clock second of the store (the claim as stated).
C28_SessionReadableUntilTtl ==
    [][(store_response'.op = "get_session" /\ store_response' # store_response
        /\ Truthy(dynamo_table)) =>
          LET k == store_response'.key
          IN (/\ k \in DOMAIN sessions_written
              /\ now < sessions_written[k].time + sessions_written[k].ttl) =>
                 /\ store_response'.value = sessions_written[k].value
                 /\ store_response'.status = 200
      ]_vars

=============================================================================
